---- MODULE Spec2Model ----
(***************************************************************************)
(* Aragog: a single-host web crawler that honours robots.txt.              *)
(*                                                                         *)
(* URLs, robots.txt lines and regular-expression sources are TLA+ strings; *)
(* they are taken apart with Len, SubSeq and \o.  An optional value (a     *)
(* Python value that may be None, or the result of re.match) is the empty  *)
(* tuple for None and a one-element tuple <<v>> otherwise.                 *)
(***************************************************************************)
EXTENDS Bags, FiniteSets, Integers, Sequences, TLC

VARIABLES
    pc,            \* where the session is: "new", "constructed", "crawling", "done", "aborted", "init_failed"
    response,      \* what the transport gives for <root>robots.txt: an exception or a text
    robots,        \* Aragog.robots: the rule list built by parse_robots
    scheduled,     \* Aragog._scheduled_urls
    crawled,       \* Aragog._crawled_urls
    seen,          \* Aragog._seen_urls
    emitted,       \* bag of the URLs print() was called with
    fetched,       \* bag of the page URLs the transport was asked for
    raised,        \* the exception that left the session ("none" when there is none)
    site,          \* the pages of the site when they are fixed: <<URL -> hrefs>>, <<>> when any page may answer
    rediscovered,  \* whether some page linked to a URL that was in _seen_urls already
    doc,           \* robots parser run: the robots.txt text handed to the parser
    parsed,        \* robots parser run: <<>> before the run, <<rules>> after
    rule_in,       \* rule comparison run: the root and the two (raw path, allow) inputs
    rule_out,      \* rule comparison run: <<>> before, <<[lhs, rhs, ge]>> after
    match_in,      \* match run: root URL, raw path and candidate URL
    match_out,     \* match run: <<>> before, <<TRUE/FALSE>> after
    clock,         \* rate limiter run: what time() returns, in ticks
    limiter,       \* rate limiter run: the RateLimit object (<<>> when there is none)
    ncalls,        \* rate limiter run: how many times the wrapper was called
    calls,         \* rate limiter run: the last two calls of the wrapper, oldest first
    call_in,       \* helper run: the arguments a helper of helpers.py is called with
    call_out       \* helper run: <<>> before the call, <<result>> after

vars == <<pc, response, robots, scheduled, crawled, seen, emitted, fetched, raised, rediscovered, site,
          doc, parsed, rule_in, rule_out, match_in, match_out, clock, limiter, ncalls, calls,
          call_in, call_out>>

crawl_vars == <<pc, response, robots, scheduled, crawled, seen, emitted, fetched, raised, rediscovered, site>>
robots_vars == <<doc, parsed>>
rule_vars == <<rule_in, rule_out>>
match_vars == <<match_in, match_out>>
rate_vars == <<clock, limiter, ncalls, calls>>
call_vars == <<call_in, call_out>>

-----------------------------------------------------------------------------
(* Strings *)

None == <<>>
Some(v) == <<v>>

\* the i-th character of s, "" beyond its end
Char(s, i) == IF i \in 1..Len(s) THEN SubSeq(s, i, i) ELSE ""
Drop(s, n) == SubSeq(s, n + 1, Len(s))
StartsWith(s, p) == Len(s) >= Len(p) /\ SubSeq(s, 1, Len(p)) = p
EndsWith(s, p) == Len(s) >= Len(p) /\ SubSeq(s, Len(s) - Len(p) + 1, Len(s)) = p

Min(set) == CHOOSE i \in set : \A k \in set : i <= k
Max(set) == CHOOSE i \in set : \A k \in set : i >= k

\* The least i >= from with s[i..] starting with p, or 0 when there is none (str.find).
Find(s, p, from) ==
    LET hits == {i \in from..(Len(s) - Len(p) + 1) : SubSeq(s, i, i + Len(p) - 1) = p}
    IN  IF hits = {} THEN 0 ELSE Min(hits)

\* The strings parts[lo], ..., parts[hi] in one string.
RECURSIVE Concat(_, _, _)
Concat(parts, lo, hi) ==
    IF lo > hi THEN ""
    ELSE IF lo = hi THEN parts[lo]
    ELSE LET mid == (lo + hi) \div 2
         IN  Concat(parts, lo, mid) \o Concat(parts, mid + 1, hi)

\* str.replace(old, new): every non-overlapping occurrence, left to right.
RECURSIVE Replace(_, _, _)
Replace(s, old, new) ==
    LET i == Find(s, old, 1) IN
    IF i = 0 THEN s
    ELSE SubSeq(s, 1, i - 1) \o new \o Replace(Drop(s, i + Len(old) - 1), old, new)

\* The least index >= from of a character of s in chars, or Len(s)+1.
FirstOf(s, chars, from) == Min({i \in from..Len(s) : Char(s, i) \in chars} \cup {Len(s) + 1})

\* str.splitlines() for the line ends "\n", "\r\n", "\r" and "\f": no empty last line.
RECURSIVE splitlines(_)
splitlines(s) ==
    IF s = "" THEN <<>>
    ELSE LET i == FirstOf(s, {"\n", "\r", "\f"}, 1)
             end == IF Char(s, i) = "\r" /\ Char(s, i + 1) = "\n" THEN i + 1 ELSE i
         IN  IF i > Len(s) THEN <<s>>
             ELSE <<SubSeq(s, 1, i - 1)>> \o splitlines(Drop(s, end))

-----------------------------------------------------------------------------
(* Regular expressions: re.escape, re.compile, Pattern.match *)

\* The characters re.escape puts a backslash before (the vertical tab, which it
\* escapes too, is not a character of the strings here).
SpecialChars ==
    {"(", ")", "[", "]", "{", "}", "?", "*", "+", "-", "|", "^", "$", "\\", ".",
     "&", "~", "#", " ", "\t", "\n", "\r", "\f"}

escape(s) ==
    Concat([i \in 1..Len(s) |->
               IF Char(s, i) \in SpecialChars THEN "\\" \o Char(s, i) ELSE Char(s, i)],
           1, Len(s))

\* The character at i of a regular expression source is taken literally by the
\* backslash before it: an odd number of backslashes runs up to it.
Escaped(p, i) ==
    LET before == {k \in 0..(i - 1) : k = 0 \/ Char(p, k) # "\\"}
    IN  (i - 1 - Max(before)) % 2 = 1

\* The '*' at i belongs to a '.' before it.
StarOfDot(p, i) ==
    Char(p, i) = "*" /\ ~Escaped(p, i) /\ Char(p, i - 1) = "." /\ ~Escaped(p, i - 1)

\* The token of the source p that starts at i.
Token(p, i) ==
    IF i = 1 /\ Char(p, 1) = "^" THEN [t |-> "bos", c |-> ""]
    ELSE IF i = Len(p) /\ Char(p, i) = "$" THEN [t |-> "eos", c |-> ""]
    ELSE IF Char(p, i) = "\\" THEN [t |-> "lit", c |-> Char(p, i + 1)]
    ELSE IF Char(p, i) = "." /\ Char(p, i + 1) = "*" THEN [t |-> "anystar", c |-> ""]
    ELSE IF Char(p, i) = "." THEN [t |-> "any", c |-> ""]
    ELSE [t |-> "lit", c |-> Char(p, i)]

\* re.compile for the sources this program builds: '^' first, '$' last, '\c' a
\* literal c, '.*' any run of characters but newlines, '.' one character but a
\* newline, any other character itself.
compile(p) ==
    LET starts == SelectSeq([i \in 1..Len(p) |-> i],
                            LAMBDA i : ~Escaped(p, i) /\ ~StarOfDot(p, i))
    IN  [k \in 1..Len(starts) |-> Token(p, starts[k])]

NoNewline(s, from, to) == \A k \in from..to : Char(s, k) # "\n"

\* '$': the end of s, or the place before a newline that ends s
AtEnd(s, j) == j = Len(s) + 1 \/ (j = Len(s) /\ Char(s, j) = "\n")

\* a one-character token against a character
TokenMatchesChar(tok, ch) ==
    IF tok.t = "lit" THEN ch = tok.c ELSE tok.t = "any" /\ ch # "\n"

\* The tokens from i on match s from j on: the tokens up to the next '.*' one
\* character each, then the '.*' any run without a newline, then the rest.
RECURSIVE MatchAt(_, _, _, _, _)
MatchAt(toks, i, s, j, to_end) ==
    LET star == Min({k \in i..Len(toks) : toks[k].t = "anystar"} \cup {Len(toks) + 1})
        width == star - i
    IN  /\ j + width - 1 <= Len(s)
        /\ \A k \in 0..(width - 1) : TokenMatchesChar(toks[i + k], Char(s, j + k))
        /\ IF star > Len(toks) THEN to_end => AtEnd(s, j + width)
           ELSE \E m \in (j + width)..(Len(s) + 1) :
                    NoNewline(s, j + width, m - 1) /\ MatchAt(toks, star + 1, s, m, to_end)

\* Pattern.match(s): the pattern matches at the start of s (not necessarily all
\* of it, unless it ends with '$').
match(pattern, s) ==
    LET bos == Len(pattern) > 0 /\ pattern[1].t = "bos"
        eos == Len(pattern) > 0 /\ pattern[Len(pattern)].t = "eos"
        body == SubSeq(pattern, IF bos THEN 2 ELSE 1, IF eos THEN Len(pattern) - 1 ELSE Len(pattern))
    IN  MatchAt(body, 1, s, 1, eos)

-----------------------------------------------------------------------------
(* helpers.py *)

\* valid for lines without a line end, which is what splitlines() gives
Whitespace == {" ", "\t", "\n", "\r", "\f"}

\* the length of the run of white space s starts with
LeadingWhitespace(s) == Min({i \in 1..Len(s) : Char(s, i) \notin Whitespace} \cup {Len(s) + 1}) - 1

\* re.compile(r'^<key>\s+(.+)$').match(line): None, or Some(group(1)).  \s+ takes
\* the whole run of white space after the key and gives its last character back
\* to (.+) when nothing else is left for it.
DirectiveMatch(key, line) ==
    IF ~StartsWith(line, key) THEN None
    ELSE LET rest == Drop(line, Len(key))
             k == LeadingWhitespace(rest)
             tail == Drop(rest, k)
         IN  IF k = 0 THEN None
             ELSE IF tail # "" THEN Some(tail)
             ELSE IF k >= 2 THEN Some(Char(rest, k))
             ELSE None

allow_pattern(line) == DirectiveMatch("Allow:", line)
disallow_pattern(line) == DirectiveMatch("Disallow:", line)
user_agent_pattern(line) == DirectiveMatch("User-agent:", line)

\* a pattern without the closing '$'
convert_to_regex_unanchored(raw_pattern) ==
    LET raw == IF EndsWith(raw_pattern, "/") THEN raw_pattern \o "*" ELSE raw_pattern
        pattern == Replace(escape(raw), "\\*", ".*")
    IN  compile("^" \o pattern)

convert_to_regex(raw_pattern) ==
    LET raw == IF EndsWith(raw_pattern, "/") THEN raw_pattern \o "*" ELSE raw_pattern
        pattern == Replace(escape(raw), "\\*", ".*")
    IN  compile("^" \o pattern \o "$")

\* The character classes of valid_url_pattern, for lower-case text: \w with '.'
\* and '-', and the characters the last class lists.
Digits == {"0", "1", "2", "3", "4", "5", "6", "7", "8", "9"}
WordChars ==
    {"a", "b", "c", "d", "e", "f", "g", "h", "i", "j", "k", "l", "m",
     "n", "o", "p", "q", "r", "s", "t", "u", "v", "w", "x", "y", "z"} \cup Digits \cup {"_"}
HostChars == WordChars \cup {".", "-"}
UrlChars ==
    WordChars \cup {"-", ".", "_", "~", ":", "/", "?", "#", "[", "]", "@", "!", "$", "&", "'",
                    "(", ")", "*", "+", ",", ";", "="}

\* Whether [\w.-]+(?:\.[\w.-]+)+[...]+$ matches the whole of s ('$' also taking a
\* last line end): s is made of the characters of the last class, and a '.' that
\* is neither first nor last stands in its leading run of [\w.-], one character
\* at least following that run or left over from it.
ValidUrlBody(s) ==
    LET body == IF EndsWith(s, "\n") THEN SubSeq(s, 1, Len(s) - 1) ELSE s
        run == Min({i \in 1..Len(body) : Char(body, i) \notin HostChars} \cup {Len(body) + 1}) - 1
    IN  /\ \A i \in 1..Len(body) : Char(body, i) \in UrlChars
        /\ \E p \in 2..(run - 1) : Char(body, p) = "." /\ p + 2 <= Len(body)

\* valid_url_pattern.match(href), with and without the optional scheme
valid_url_pattern(href) ==
    \/ ValidUrlBody(href)
    \/ StartsWith(href, "http://") /\ ValidUrlBody(Drop(href, 7))
    \/ StartsWith(href, "https://") /\ ValidUrlBody(Drop(href, 8))

\* href_is_valid_url of an href attribute (None when the tag has none)
href_is_valid_url(href) == href # None /\ href[1] # "" /\ valid_url_pattern(href[1])

\* re.compile('^(http|https)://{}.*$'.format(website_domain)): the two branches of
\* the group, each compiled; the domain is pasted in unescaped.
website_domain_pattern(website_domain) ==
    {compile("^" \o schema \o "://" \o website_domain \o ".*$") : schema \in {"http", "https"}}

\* a filter that lets every url through
remove_non_local_urls_keeps_all(urls, local_domain) == urls

remove_non_local_urls(urls, local_domain) ==
    {url \in urls : \E branch \in local_domain : match(branch, url)}

\* urllib.parse.urlparse(url).scheme and .netloc, for lower-case URLs
Letters ==
    {"a", "b", "c", "d", "e", "f", "g", "h", "i", "j", "k", "l", "m",
     "n", "o", "p", "q", "r", "s", "t", "u", "v", "w", "x", "y", "z"}
SchemeChars == Letters \cup {"0", "1", "2", "3", "4", "5", "6", "7", "8", "9", "+", "-", "."}

url_scheme(url) ==
    LET i == Find(url, ":", 1) IN
    IF i > 1 /\ Char(url, 1) \in Letters /\ \A k \in 1..(i - 1) : Char(url, k) \in SchemeChars
    THEN SubSeq(url, 1, i - 1)
    ELSE ""

AfterScheme(url) == IF url_scheme(url) = "" THEN url ELSE Drop(url, Len(url_scheme(url)) + 1)

url_netloc(url) ==
    LET rest == AfterScheme(url) IN
    IF StartsWith(rest, "//") THEN SubSeq(rest, 3, FirstOf(rest, {"/", "?", "#"}, 3) - 1) ELSE ""

\* the path of a URL without query, parameters or fragment
url_path(url) ==
    LET rest == AfterScheme(url) IN
    IF StartsWith(rest, "//") THEN Drop(rest, FirstOf(rest, {"/", "?", "#"}, 3) - 1) ELSE rest

\* The index of the last "/" of s, or 0.
LastSlash(s) == Max({i \in 1..Len(s) : Char(s, i) = "/"} \cup {0})

\* urllib.parse.urljoin(base, url) for an http(s) base and a url without netloc,
\* query, fragment, empty or dot segments.
urljoin(base, url) ==
    IF url = "" THEN base
    ELSE IF url_scheme(url) # "" /\ url_scheme(url) # url_scheme(base) THEN url
    ELSE LET path == url_path(url)
             bpath == url_path(base)
             origin == url_scheme(base) \o "://" \o url_netloc(base)
         IN  IF path = "" THEN base
             ELSE IF StartsWith(path, "/") THEN origin \o path
             ELSE IF LastSlash(bpath) = 0 THEN origin \o "/" \o path
             ELSE origin \o SubSeq(bpath, 1, LastSlash(bpath)) \o path

\* a resolution that leaves every child as it is
handle_relative_paths_unresolved(parent_url, child_urls) == child_urls

handle_relative_paths(parent_url, child_urls) ==
    {IF url_netloc(child_url) = "" THEN urljoin(parent_url, child_url) ELSE child_url :
        child_url \in child_urls}

-----------------------------------------------------------------------------
(* robots_parser.py *)

\* a rule whose priority is the length of the text the pattern is compiled from
RobotRule_priority_of_pattern(root_url, raw_path, allow) ==
    [pattern |-> convert_to_regex(root_url \o raw_path),
     allow |-> allow,
     priority |-> Len(IF EndsWith(raw_path, "/") THEN raw_path \o "*" ELSE raw_path)]

RobotRule(root_url, raw_path, allow) ==
    [pattern |-> convert_to_regex(root_url \o raw_path),
     allow |-> allow,
     priority |-> Len(raw_path)]

\* RobotRule.__ge__ between two rules
rule_ge(self, other) == self.priority >= other.priority

rule_match(self, string) == match(self.pattern, string)

\* RobotRule.factory, for a line one of the two patterns matches
factory(root_url, rule) ==
    LET allow_match == allow_pattern(rule)
        disallow_match == disallow_pattern(rule)
    IN  IF allow_match # None
        THEN RobotRule(root_url, allow_match[1], TRUE)
        ELSE RobotRule(root_url, disallow_match[1], FALSE)

relevant_agents == {"*"}

\* a flag that is set by a relevant User-agent line and never reset
in_relevant_group_sticky(in_relevant_group, rule) ==
    LET user_agent_match == DirectiveMatch("User-agent:", rule) IN
    in_relevant_group \/ (user_agent_match # None /\ user_agent_match[1] \in {"*"})

\* the value of in_relevant_group after a line
in_relevant_group_after(in_relevant_group, rule) ==
    LET user_agent_match == user_agent_pattern(rule) IN
    IF user_agent_match # None THEN user_agent_match[1] \in relevant_agents
    ELSE in_relevant_group

\* the rules a line adds to relevant_rules
rules_of_line(website_root, in_relevant_group, rule) ==
    IF user_agent_pattern(rule) # None THEN <<>>
    ELSE IF in_relevant_group /\ (allow_pattern(rule) # None \/ disallow_pattern(rule) # None)
    THEN <<factory(website_root, rule)>>
    ELSE <<>>

RECURSIVE FilterFrom(_, _, _, _)
FilterFrom(website_root, robots_rules, i, in_relevant_group) ==
    IF i > Len(robots_rules) THEN <<>>
    ELSE rules_of_line(website_root, in_relevant_group, robots_rules[i])
         \o FilterFrom(website_root, robots_rules, i + 1,
                       in_relevant_group_after(in_relevant_group, robots_rules[i]))

filter_by_agent(website_root, robots_rules) == FilterFrom(website_root, robots_rules, 1, FALSE)

\* list.sort(key=priority, reverse=True): decreasing, and stable: a rule goes
\* behind every rule before it in the list that has at least its priority.
RECURSIVE InsertByPriority(_, _)
InsertByPriority(sorted, rule) ==
    IF sorted = <<>> THEN <<rule>>
    ELSE IF Head(sorted).priority >= rule.priority
         THEN <<Head(sorted)>> \o InsertByPriority(Tail(sorted), rule)
         ELSE <<rule>> \o sorted

RECURSIVE SortFrom(_, _, _)
SortFrom(rules, i, sorted) ==
    IF i > Len(rules) THEN sorted ELSE SortFrom(rules, i + 1, InsertByPriority(sorted, rules[i]))

\* an increasing stable sort read backwards: decreasing, ties in reverse order
RECURSIVE InsertByPriorityIncreasing(_, _)
InsertByPriorityIncreasing(sorted, rule) ==
    IF sorted = <<>> THEN <<rule>>
    ELSE IF Head(sorted).priority <= rule.priority
         THEN <<Head(sorted)>> \o InsertByPriorityIncreasing(Tail(sorted), rule)
         ELSE <<rule>> \o sorted

RECURSIVE SortIncreasingFrom(_, _, _)
SortIncreasingFrom(rules, i, sorted) ==
    IF i > Len(rules) THEN sorted
    ELSE SortIncreasingFrom(rules, i + 1, InsertByPriorityIncreasing(sorted, rules[i]))

sort_increasing_reversed(relevant_rules) ==
    LET up == SortIncreasingFrom(relevant_rules, 1, <<>>)
    IN  [i \in 1..Len(up) |-> up[Len(up) + 1 - i]]

sort_robots_by_priority_decreasing(relevant_rules) == SortFrom(relevant_rules, 1, <<>>)

\* A response of the transport: an exception ("none": none) or a text.
Text(t) == [exc |-> "none", text |-> t]
Failure(e) == [exc |-> e, text |-> ""]

\* the except clause of parse_robots
parse_robots_catches(exc) == exc = "SSLError"

parse_robots_raises(resp) == resp.exc # "none" /\ ~parse_robots_catches(resp.exc)

\* parse_robots when it returns
parse_robots(website_root, resp) ==
    LET robots_rules == IF resp.exc # "none" THEN <<>> ELSE splitlines(resp.text)
    IN  sort_robots_by_priority_decreasing(filter_by_agent(website_root, robots_rules))

-----------------------------------------------------------------------------
(* aragog.py: one crawl session *)

\* Bounds of the session: the hrefs of a page, and the page fetches of a session
\* (more than a session on the URLs below ever makes)
MaxHrefs == 3
MaxFetches == 6

website_domain == "a.io/"
schema == "http://"
website_root == schema \o website_domain

\* Aragog._website_domain_pattern
local_domain_pattern == website_domain_pattern(website_domain)

\* The href attributes an <a> tag of a page may carry (None: no href).
HrefValues ==
    {None, Some(""), Some("b.html"), Some("/"), Some("http://a.io/x.cgi"),
     Some("http://b.io/"), Some("mailto:x@a.io")}

PageContents == {hrefs \in SUBSET HrefValues : Cardinality(hrefs) <= MaxHrefs}

\* What the transport may answer for robots.txt.
RobotsResponses ==
    {Failure("SSLError"), Failure("ConnectionError"),
     Text(""),
     Text("User-agent: *\nDisallow: *.cgi"),
     Text("User-agent: *\nDisallow: *.cgi\nAllow: *x.cgi")}

\* What a failing page fetch raises.
PageErrors == {"SSLError", "ConnectionError"}

\* hrefs: the set {a_tag.get('href') for a_tag in a_tags} of the fetched page.
\* The filter keeps the strings that are not the empty string (href is not '':
\* CPython has one empty str object, so the identity test is an inequality).
get_child_urls_from_parent(parent_url, hrefs) ==
    LET urls == {href[1] : href \in {h \in hrefs : h # None /\ h[1] # ""}}
    IN  handle_relative_paths(parent_url, urls)

schedule_url(scheduled_urls, url) == scheduled_urls \cup {url}

\* The URLs the scan of one url over the rules from rule i on schedules: the url
\* at each matching Allow rule, until a matching Disallow rule breaks the scan.
RECURSIVE scan_rules(_, _, _)
scan_rules(rules, i, url) ==
    IF i > Len(rules) THEN {}
    ELSE IF rule_match(rules[i], url)
         THEN (IF rules[i].allow THEN {url} \cup scan_rules(rules, i + 1, url) ELSE {})
         ELSE scan_rules(rules, i + 1, url)

\* a scheduling that leaves it to the scan: a url is scheduled at a matching
\* Allow rule only
schedule_allowed_urls_by_scan(scheduled_urls, rules, local_urls) ==
    scheduled_urls \cup UNION {scan_rules(rules, 1, url) : url \in local_urls}

\* a scheduling that replaces what was scheduled
schedule_allowed_urls_replacing(scheduled_urls, rules, local_urls) ==
    UNION {scan_rules(rules, 1, url) \cup {url} : url \in local_urls}

\* _scheduled_urls after schedule_allowed_urls(local_urls): each url is scheduled
\* by the scan, and once more after it
schedule_allowed_urls(scheduled_urls, rules, local_urls) ==
    scheduled_urls \cup UNION {scan_rules(rules, 1, url) \cup {url} : url \in local_urls}

\* _scheduled_urls after self._scheduled_urls.pop() has returned next_url
pop(scheduled_urls, next_url) == scheduled_urls \ {next_url}

\* a result that keeps the urls seen before
all_scraped_urls(scraped_urls, seen_urls) == scraped_urls

\* what choose_url_and_scrape returns
unseen_urls(scraped_urls, seen_urls) == scraped_urls \ seen_urls

\* a marking that keeps only the urls of the local domain
mark_only_local_urls_as_seen(seen_urls, urls) ==
    seen_urls \cup remove_non_local_urls(urls, local_domain_pattern)

\* a marking that is left out
mark_urls_as_seen_skipped(seen_urls, urls) == seen_urls

\* a marking that forgets what was seen before
mark_urls_as_seen_replacing(seen_urls, urls) == urls

\* _seen_urls after _mark_urls_as_seen(*urls)
mark_urls_as_seen(seen_urls, urls) == seen_urls \cup urls

\* the urls output_scraped_urls prints
output_scraped_urls(seen_urls, urls) == urls \ seen_urls

\* a loop that skips the page whose fetch failed
crawl_skips_exception(exc) == "crawling"

\* crawl() has no handler around choose_url_and_scrape: an exception of the
\* transport leaves the loop and crawl()
crawl_after_exception(exc) == "aborted"

CrawlInit ==
    /\ pc = "new"
    /\ response \in RobotsResponses
    /\ robots = <<>>
    /\ scheduled = {}
    /\ crawled = {}
    /\ seen = {}
    /\ emitted = EmptyBag
    /\ fetched = EmptyBag
    /\ raised = "none"
    /\ rediscovered = FALSE

\* Aragog.__init__
Construct ==
    /\ pc = "new"
    /\ IF parse_robots_raises(response)
       THEN /\ pc' = "init_failed"
            /\ raised' = response.exc
            /\ UNCHANGED robots
       ELSE /\ pc' = "constructed"
            /\ robots' = parse_robots(website_root, response)
            /\ UNCHANGED raised
    /\ scheduled' = {}
    /\ crawled' = {}
    /\ seen' = {}
    /\ UNCHANGED <<response, emitted, fetched, rediscovered, site>>

\* crawl(), up to the loop
StartCrawl ==
    /\ pc = "constructed"
    /\ scheduled' = schedule_url(scheduled, website_root)
    /\ pc' = "crawling"
    /\ UNCHANGED <<response, robots, crawled, seen, emitted, fetched, raised, rediscovered, site>>

\* One iteration of the loop of crawl(), the fetch answering with a page.
CrawlIteration(next_url, hrefs) ==
    /\ pc = "crawling"
    /\ next_url \in scheduled
    /\ BagCardinality(fetched) < MaxFetches
    /\ LET scraped_urls == get_child_urls_from_parent(next_url, hrefs)
           new_urls == unseen_urls(scraped_urls, seen)
           local_urls == remove_non_local_urls(new_urls, local_domain_pattern)
       IN  /\ fetched' = fetched (+) SetToBag({next_url})
           /\ crawled' = crawled \cup {next_url}
           /\ emitted' = emitted (+) SetToBag(output_scraped_urls(seen, new_urls))
           /\ seen' = mark_urls_as_seen(seen, new_urls)
           /\ rediscovered' = (rediscovered \/ scraped_urls \cap seen # {})
           /\ scheduled' = schedule_allowed_urls(pop(scheduled, next_url), robots, local_urls)
    /\ UNCHANGED <<pc, response, robots, raised, site>>

\* One iteration of the loop of crawl(), the fetch raising exc.
PageFetchFails(next_url, exc) ==
    /\ pc = "crawling"
    /\ next_url \in scheduled
    /\ scheduled' = pop(scheduled, next_url)
    /\ fetched' = fetched (+) SetToBag({next_url})
    /\ raised' = exc
    /\ pc' = crawl_after_exception(exc)
    /\ UNCHANGED <<response, robots, crawled, seen, emitted, rediscovered, site>>

\* The loop of crawl() ends.
CrawlDone ==
    /\ pc = "crawling"
    /\ scheduled = {}
    /\ pc' = "done"
    /\ UNCHANGED <<response, robots, scheduled, crawled, seen, emitted, fetched, raised, rediscovered, site>>

CrawlIdle ==
    /\ pc = "off"
    /\ response = Text("")
    /\ robots = <<>>
    /\ scheduled = {}
    /\ crawled = {}
    /\ seen = {}
    /\ emitted = EmptyBag
    /\ fetched = EmptyBag
    /\ raised = "none"
    /\ rediscovered = FALSE
    /\ site = None
RobotsIdle == doc = "" /\ parsed = None
RuleIdle == rule_in = None /\ rule_out = None
MatchIdle == match_in = None /\ match_out = None
RateIdle == clock = 0 /\ limiter = None /\ ncalls = 0 /\ calls = <<>>
CallIdle == call_in = None /\ call_out = None

Init == CrawlInit /\ site = None /\ RobotsIdle /\ RuleIdle /\ MatchIdle /\ RateIdle /\ CallIdle

Next ==
    \/ Construct /\ UNCHANGED <<robots_vars, rule_vars, match_vars, rate_vars, call_vars>>
    \/ StartCrawl /\ UNCHANGED <<robots_vars, rule_vars, match_vars, rate_vars, call_vars>>
    \/ \E next_url \in scheduled, hrefs \in PageContents :
          CrawlIteration(next_url, hrefs) /\ UNCHANGED <<robots_vars, rule_vars, match_vars, rate_vars, call_vars>>
    \/ \E next_url \in scheduled, exc \in PageErrors :
          PageFetchFails(next_url, exc) /\ UNCHANGED <<robots_vars, rule_vars, match_vars, rate_vars, call_vars>>
    \/ CrawlDone /\ UNCHANGED <<robots_vars, rule_vars, match_vars, rate_vars, call_vars>>

Spec == Init /\ [][Next]_vars

\* The URLs a session can come to fetch: the root and the local URLs a page can
\* link to.
SiteUrls ==
    {website_root} \cup
    remove_non_local_urls(
        UNION {get_child_urls_from_parent(website_root, hrefs) : hrefs \in PageContents},
        local_domain_pattern)

\* The pages a fixed site is made of.
SitePages ==
    {{},
     {Some("b.html"), Some("/")},
     {Some("http://a.io/x.cgi"), Some("http://b.io/"), None},
     {Some("mailto:x@a.io"), Some(""), Some("b.html")}}

Sites == [SiteUrls -> SitePages]

\* The session on a fixed site, every fetch of a page returning the page of the
\* URL: the loop of crawl() goes on as long as it can take a step (one thread,
\* nothing else to wait for).
InitSite ==
    CrawlInit /\ site \in {Some(pages) : pages \in Sites}
    /\ RobotsIdle /\ RuleIdle /\ MatchIdle /\ RateIdle /\ CallIdle

NextSite ==
    \/ Construct /\ UNCHANGED <<robots_vars, rule_vars, match_vars, rate_vars, call_vars>>
    \/ StartCrawl /\ UNCHANGED <<robots_vars, rule_vars, match_vars, rate_vars, call_vars>>
    \/ \E next_url \in scheduled :
          CrawlIteration(next_url, site[1][next_url])
          /\ UNCHANGED <<robots_vars, rule_vars, match_vars, rate_vars, call_vars>>
    \/ CrawlDone /\ UNCHANGED <<robots_vars, rule_vars, match_vars, rate_vars, call_vars>>

\* Whether the session can take a step: the constructor and crawl() run to their
\* ends, the loop while a URL is scheduled.
SessionCanStep ==
    \/ pc \in {"new", "constructed"}
    \/ pc = "crawling" /\ (scheduled = {} \/ BagCardinality(fetched) < MaxFetches)

\* Weak fairness of the session's steps: a session that can take a step does
\* not stop (SessionCanStep is the enabling condition of NextSite, written out),
\* and crawl() returns once its loop finds nothing scheduled.
FairSite ==
    /\ []<>(~SessionCanStep) \/ []<><<NextSite>>_vars
    /\ WF_vars(CrawlDone /\ UNCHANGED <<robots_vars, rule_vars, match_vars, rate_vars, call_vars>>)

SpecSite == InitSite /\ [][NextSite]_vars /\ FairSite

-----------------------------------------------------------------------------
(* The robots.txt parser on its own: RobotsParser.parse_robots on a document *)

\* Bound of the documents: the number of lines
MaxLines == 4

\* the root the tests construct the crawler with
test_root == "http://www.example.com"

\* tests/conftest.py: example_robots_txt
example_robots_txt ==
    "User-agent: *\nDisallow: /asdfasdf.html\nDisallow: /pics/lisdad/\n"
    \o "Disallow: */restrict*?wghky\nDisallow: */restrict*&wghky\nAllow: */restrict*?pg=\n"
    \o "\nSitemap: https://www.example.com/sitemap.xml\n"
    \o "\nUser-agent: AdsBot-Google-Mobile-Apps\nAllow: /intl/"

RobotsLines ==
    {"User-agent: *", "User-agent: Bot", "Allow: /a", "Disallow: /b", "Disallow: /cc",
     "Sitemap: /s", ""}

RECURSIVE JoinLines(_)
JoinLines(lines) ==
    IF lines = <<>> THEN ""
    ELSE IF Len(lines) = 1 THEN lines[1]
    ELSE lines[1] \o "\n" \o JoinLines(Tail(lines))

RobotsDocs ==
    {example_robots_txt}
    \cup {JoinLines(lines) : lines \in UNION {[1..n -> RobotsLines] : n \in 0..MaxLines}}

ParserInit == doc \in RobotsDocs /\ parsed = None

\* parse_robots, up to the return of _filter_by_agent
FilterByAgent ==
    /\ parsed = None
    /\ parsed' = Some([stage |-> "filtered",
                       rules |-> filter_by_agent(test_root, splitlines(doc))])
    /\ UNCHANGED doc

\* parse_robots, the sort and the return
SortByPriority ==
    /\ parsed # None
    /\ parsed[1].stage = "filtered"
    /\ parsed' = Some([stage |-> "sorted",
                       rules |-> sort_robots_by_priority_decreasing(parsed[1].rules)])
    /\ UNCHANGED doc

InitRobots == CrawlIdle /\ ParserInit /\ RuleIdle /\ MatchIdle /\ RateIdle /\ CallIdle

NextRobots ==
    \/ FilterByAgent /\ UNCHANGED <<crawl_vars, rule_vars, match_vars, rate_vars, call_vars>>
    \/ SortByPriority /\ UNCHANGED <<crawl_vars, rule_vars, match_vars, rate_vars, call_vars>>

SpecRobots == InitRobots /\ [][NextRobots]_vars

-----------------------------------------------------------------------------
(* Two rules built by RobotRule.factory and compared with >= *)

RuleRoots == {"http://a.b", "http://a.b/"}
RawPaths == {"a", "aa", "/", "/a/", "/ab", "*", "/a.b", "/a*b/"}

DirectiveLine(raw_path, allow) == (IF allow THEN "Allow: " ELSE "Disallow: ") \o raw_path

RuleInit ==
    /\ rule_in \in {Some([root |-> root, lhs |-> lhs, rhs |-> rhs]) :
                      root \in RuleRoots,
                      lhs \in [raw : RawPaths, allow : BOOLEAN],
                      rhs \in [raw : RawPaths, allow : BOOLEAN]}
    /\ rule_out = None

CompareRules ==
    /\ rule_out = None
    /\ LET in == rule_in[1]
           lhs == factory(in.root, DirectiveLine(in.lhs.raw, in.lhs.allow))
           rhs == factory(in.root, DirectiveLine(in.rhs.raw, in.rhs.allow))
       IN  rule_out' = Some([lhs |-> lhs, rhs |-> rhs, ge |-> rule_ge(lhs, rhs)])
    /\ UNCHANGED rule_in

InitRule == CrawlIdle /\ RobotsIdle /\ RuleInit /\ MatchIdle /\ RateIdle /\ CallIdle
NextRule == CompareRules /\ UNCHANGED <<crawl_vars, robots_vars, match_vars, rate_vars, call_vars>>
SpecRule == InitRule /\ [][NextRule]_vars

-----------------------------------------------------------------------------
(* One rule matched against one URL *)

MatchRoots == {"http://a.b"}
MatchPaths == {"/bk/", "*imode", "/b?*q=*", "/a.b", "/", "/x*/y*", "/a+b"}
MatchUrls ==
    {"http://a.b/bk/", "http://a.b/bk/d3", "http://a.b/bk", "http://a.b/b?fq=1", "http://a.b/bq=",
     "http://a.b/p/imode", "http://a.b/p/imode2", "https://a.b/p/imode", "http://c.a.b/imode",
     "http://b/imode", "http://a.b/a.b", "http://a.b/axb", "http://a.b/", "http://a.b",
     "http://a.b/a+b", "http://a.b/aab", "http://a.b/x/y", "http://a.b/xz/q/yy", "http://a.b/y/x",
     "http://a.bc/imode", "http://a.b.evil/p/imode"}

MatchInit ==
    /\ match_in \in {Some([root |-> root, raw |-> raw, url |-> url]) :
                       root \in MatchRoots, raw \in MatchPaths, url \in MatchUrls}
    /\ match_out = None

MatchRule ==
    /\ match_out = None
    /\ LET in == match_in[1]
       IN  match_out' = Some(rule_match(RobotRule(in.root, in.raw, TRUE), in.url))
    /\ UNCHANGED match_in

InitMatch == CrawlIdle /\ RobotsIdle /\ RuleIdle /\ MatchInit /\ RateIdle /\ CallIdle
NextMatch == MatchRule /\ UNCHANGED <<crawl_vars, robots_vars, rule_vars, rate_vars, call_vars>>
SpecMatch == InitMatch /\ [][NextMatch]_vars

-----------------------------------------------------------------------------
(* helpers.py: remove_non_local_urls and handle_relative_paths called on their own *)

\* Bound of the calls: the number of URLs in the set handed over
MaxUrls == 2

\* The website_domain a session may be made with (run_aragog.py adds the last '/'
\* when it is missing, Aragog itself takes either) and URLs a page may link to.
LocalDomains == {"a.io/", "a.io"}
LocalUrls ==
    {"http://a.io/", "https://a.io/x", "http://a.io", "http://axio/", "http://a.io.evil/",
     "ftp://a.io/", "http://b.a.io/", "http://io/", "http://b.io/"}

UrlSets(urls) == {set \in SUBSET urls : Cardinality(set) <= MaxUrls}

LocalInit ==
    /\ call_in \in {Some([domain |-> domain, urls |-> urls]) :
                      domain \in LocalDomains, urls \in UrlSets(LocalUrls)}
    /\ call_out = None

\* remove_non_local_urls(urls, self._website_domain_pattern)
RemoveNonLocalUrls ==
    /\ call_out = None
    /\ call_out' = Some(remove_non_local_urls(call_in[1].urls,
                                              website_domain_pattern(call_in[1].domain)))
    /\ UNCHANGED call_in

InitLocal == CrawlIdle /\ RobotsIdle /\ RuleIdle /\ MatchIdle /\ RateIdle /\ LocalInit
NextLocal == RemoveNonLocalUrls /\ UNCHANGED <<crawl_vars, robots_vars, rule_vars, match_vars, rate_vars>>
SpecLocal == InitLocal /\ [][NextLocal]_vars

\* The pages hrefs are found on and the hrefs found (the last parent and the
\* last two hrefs are those of test_handle_relative_paths).
ResolveParents == {"http://a.io/", "http://a.io/p/c", "https://www.example.com/doc_1.html"}
ResolveChildren ==
    {"b.html", "/", "p/q.html", "http://a.io/x.cgi", "http://b.io/", "mailto:x@a.io",
     "//c.io/x", "doc_3.html", "https://www.example.com/doc_2.html"}

ResolveInit ==
    /\ call_in \in {Some([parent_url |-> parent_url, child_urls |-> child_urls]) :
                      parent_url \in ResolveParents, child_urls \in UrlSets(ResolveChildren)}
    /\ call_out = None

\* handle_relative_paths(parent_url, child_urls)
HandleRelativePaths ==
    /\ call_out = None
    /\ call_out' = Some(handle_relative_paths(call_in[1].parent_url, call_in[1].child_urls))
    /\ UNCHANGED call_in

InitResolve == CrawlIdle /\ RobotsIdle /\ RuleIdle /\ MatchIdle /\ RateIdle /\ ResolveInit
NextResolve == HandleRelativePaths /\ UNCHANGED <<crawl_vars, robots_vars, rule_vars, match_vars, rate_vars>>
SpecResolve == InitResolve /\ [][NextResolve]_vars

-----------------------------------------------------------------------------
(* helpers.py: RateLimit around a function called again and again *)

\* Bounds of the runs: the number of calls, and the longest time (in ticks) the
\* caller lets pass before a call and the wrapped function takes
MaxCalls == 3
MaxDelay == 3

\* time() counts seconds; the model counts ticks, Second of them a second
Second == 6
MaxRates == {2, 3}

\* how much longer than asked sleep() may block
Oversleeps == {0, 1}

\* 1 / max_rate
time_between_actions(max_rate) == Second \div max_rate

\* a limiter that takes its construction for an action
RateLimit_constructed_as_action(max_rate, now) ==
    [time_between_actions |-> time_between_actions(max_rate),
     last_action_time |-> now]

\* RateLimit.__init__ at time now
RateLimit(max_rate, now) ==
    [time_between_actions |-> time_between_actions(max_rate),
     last_action_time |-> now - time_between_actions(max_rate)]

\* a wait that leaves the interval out
wait_without_interval(self, now) == self.last_action_time - now

\* wrapper: wait_for_time, time() returning now
wait_for_time(self, now) == self.last_action_time + self.time_between_actions - now

\* The last two calls after one more call.
LastTwo(log, call) == IF log = <<>> THEN <<call>> ELSE <<log[Len(log)], call>>

RateInit ==
    /\ clock = 0
    /\ limiter \in {Some(RateLimit(max_rate, 0)) : max_rate \in MaxRates}
    /\ ncalls = 0
    /\ calls = <<>>

\* One call of the wrapper, made gap ticks after the last thing that happened:
\* it sleeps if it has to (sleep blocking oversleep ticks longer than asked),
\* records the time and runs the wrapped function, which takes duration ticks.
Invoke(gap, oversleep, duration) ==
    /\ limiter # None
    /\ ncalls < MaxCalls
    /\ LET entered == clock + gap
           wait == wait_for_time(limiter[1], entered)
           requested == IF wait > 0 THEN wait ELSE 0
           slept == IF wait > 0 THEN wait + oversleep ELSE 0
           invoked == entered + slept
           completed == invoked + duration
       IN  /\ limiter' = Some([limiter[1] EXCEPT !.last_action_time = invoked])
           /\ clock' = completed
           /\ calls' = LastTwo(calls, [entered |-> entered, requested |-> requested,
                                       slept |-> slept, invoked |-> invoked,
                                       completed |-> completed])
    /\ ncalls' = ncalls + 1

InitRate == CrawlIdle /\ RobotsIdle /\ RuleIdle /\ MatchIdle /\ RateInit /\ CallIdle
NextRate ==
    \E gap \in 0..MaxDelay, oversleep \in Oversleeps, duration \in 0..MaxDelay :
        Invoke(gap, oversleep, duration) /\ UNCHANGED <<crawl_vars, robots_vars, rule_vars, match_vars, call_vars>>
SpecRate == InitRate /\ [][NextRate]_vars

-----------------------------------------------------------------------------
(* aragog.py: BaseClient, the transport of the crawl loop, fetching page after page *)

\* BaseClient._get: the call goes to Session.get as it is made; the class holds
\* no RateLimit object and nothing is wrapped around _get.
BaseClient_get(now) ==
    [entered |-> now, requested |-> 0, slept |-> 0, invoked |-> now]

\* One get_content_as_text of the loop, gap ticks after the fetch before it
\* returned (the time the loop takes to extract, print and schedule), the
\* transport answering after duration ticks.
GetContentAsText(gap, duration) ==
    /\ limiter = None
    /\ ncalls < MaxCalls
    /\ LET call == BaseClient_get(clock + gap)
           completed == call.invoked + duration
       IN  /\ clock' = completed
           /\ calls' = LastTwo(calls, [entered |-> call.entered, requested |-> call.requested,
                                       slept |-> call.slept, invoked |-> call.invoked,
                                       completed |-> completed])
    /\ ncalls' = ncalls + 1
    /\ UNCHANGED limiter

InitClient == CrawlIdle /\ RobotsIdle /\ RuleIdle /\ MatchIdle /\ RateIdle /\ CallIdle
NextClient ==
    \E gap \in 0..MaxDelay, duration \in 0..MaxDelay :
        GetContentAsText(gap, duration) /\ UNCHANGED <<crawl_vars, robots_vars, rule_vars, match_vars, call_vars>>
SpecClient == InitClient /\ [][NextClient]_vars

-----------------------------------------------------------------------------
(* Properties of the rate limiter (SpecRate) *)

\* C11 as stated: two calls in a row never complete less than 1/max_rate apart.
C11_CompletionsSpaced ==
    Len(calls) = 2 =>
        calls[2].completed - calls[1].completed >= limiter[1].time_between_actions

\* C11 amended: two calls in a row never start the wrapped function less than
\* 1/max_rate apart, however long the calls take, and complete in the order
\* they were made.
C11_InvocationsSpaced ==
    Len(calls) = 2 =>
        /\ calls[2].invoked - calls[1].invoked >= limiter[1].time_between_actions
        /\ calls[1].completed <= calls[2].invoked
        /\ calls[2].completed >= calls[1].completed

\* C11 witness: a call that took longer than the interval, then a quick one, the
\* two completing closer than the interval.
C11_Witness ==
    /\ Len(calls) = 2
    /\ calls[1].completed - calls[1].invoked >= limiter[1].time_between_actions
    /\ calls[2].completed - calls[1].completed < limiter[1].time_between_actions

\* C14: two page fetches in a row of a session start at least 1/max_rate apart,
\* for some rate the session could have been given.
C14_FetchesSpaced ==
    Len(calls) = 2 =>
        \E max_rate \in MaxRates :
            calls[2].invoked - calls[1].invoked >= time_between_actions(max_rate)

\* C20: the wrapper asks sleep() for exactly the time missing to 1/max_rate since
\* the invocation time recorded last, so that two recorded invocation times in a
\* row differ by 1/max_rate at least, and by exactly that when the call came early
\* and sleep() returned on time; the first call after construction and a call
\* made 1/max_rate or more after the time recorded last are not blocked.
C20_MinimumSpacingNoMore ==
    LET interval == limiter[1].time_between_actions IN
    /\ ncalls = 1 => (calls[1].requested = 0 /\ calls[1].slept = 0)
    /\ Len(calls) = 2 =>
          LET due == calls[1].invoked + interval IN
          /\ calls[2].invoked >= due
          /\ calls[2].entered >= due => (calls[2].slept = 0 /\ calls[2].invoked = calls[2].entered)
          /\ calls[2].entered < due => calls[2].requested = due - calls[2].entered
          /\ (calls[2].entered < due /\ calls[2].slept = calls[2].requested) => calls[2].invoked = due

\* C20 witness: three calls, the second one blocked, the third one made late
\* enough not to be.
C20_Witness ==
    /\ ncalls = 3
    /\ calls[1].slept > 0
    /\ calls[2].slept = 0
    /\ calls[2].entered >= calls[1].invoked + limiter[1].time_between_actions

-----------------------------------------------------------------------------
(* Properties of the helpers called on their own (SpecLocal, SpecResolve) *)

\* the host a website_domain names: the domain without its last '/'
DomainHost(domain) ==
    IF EndsWith(domain, "/") THEN SubSeq(domain, 1, Len(domain) - 1) ELSE domain

\* C15: remove_non_local_urls hands back URLs of its input only, each of them
\* with the scheme http or https and the configured domain as its host, and none
\* of the input's URLs that has such a scheme, that host and a path is left out.
C15_ExactlyLocalKept ==
    call_out # None =>
        LET local(url) == /\ url_scheme(url) \in {"http", "https"}
                          /\ url_netloc(url) = DomainHost(call_in[1].domain)
        IN  /\ call_out[1] \subseteq call_in[1].urls
            /\ \A url \in call_out[1] : local(url)
            /\ \A url \in call_in[1].urls : (local(url) /\ url_path(url) # "") => url \in call_out[1]

IsAbsolute(url) == url_scheme(url) # "" /\ url_netloc(url) # ""

\* The children of a call kept as they are, and those joined to the parent.
KeptChildren(child_urls) == {child \in child_urls : url_netloc(child) # ""}
RelativeChildren(child_urls) ==
    {child \in child_urls : url_netloc(child) = "" /\ url_scheme(child) = ""}

\* url is parent's scheme and host followed by a path that ends with the
\* relative reference child.
JoinedTo(url, parent_url, child) ==
    /\ url_scheme(url) = url_scheme(parent_url)
    /\ url_netloc(url) = url_netloc(parent_url)
    /\ EndsWith(url_path(url), child)
    /\ StartsWith(url_path(url), "/")

\* What C16 says of the children with a host and of the result handed back again.
ResolveKeepsHosts ==
    /\ KeptChildren(call_in[1].child_urls) \subseteq call_out[1]
    /\ \A parent_url \in ResolveParents :
          handle_relative_paths(parent_url, call_out[1]) = call_out[1]

\* C16 as stated: children with a host are left as they are whatever the
\* parent, resolving the result again changes nothing, and the result holds
\* absolute URLs only.
C16_ResultAllAbsolute ==
    call_out # None =>
        /\ ResolveKeepsHosts
        /\ \A url \in call_out[1] : IsAbsolute(url)

\* C16 amended: children with a host are left as they are whatever the parent,
\* resolving the result again changes nothing, and every child without host and
\* without scheme is replaced by an absolute URL on the parent's scheme and host;
\* what is not absolute in the result is a child handed back as it came: one
\* with a scheme and no host, or with a host and no scheme.
C16_RelativeResolved ==
    call_out # None =>
        LET parent_url == call_in[1].parent_url
            child_urls == call_in[1].child_urls
            result == call_out[1]
        IN  /\ ResolveKeepsHosts
            /\ \A child \in RelativeChildren(child_urls) :
                  \E url \in result : IsAbsolute(url) /\ JoinedTo(url, parent_url, child)
            /\ \A url \in result :
                  \/ url \in child_urls \ RelativeChildren(child_urls)
                  \/ \E child \in RelativeChildren(child_urls) :
                        IsAbsolute(url) /\ JoinedTo(url, parent_url, child)
            /\ \A url \in result :
                  ~IsAbsolute(url) => (url \in child_urls /\ (url_scheme(url) # "" \/ url_netloc(url) # ""))
            /\ (parent_url = "https://www.example.com/doc_1.html"
                /\ child_urls = {"https://www.example.com/doc_2.html", "doc_3.html"}) =>
                  result = {"https://www.example.com/doc_2.html", "https://www.example.com/doc_3.html"}

\* C16 witness: the call of test_handle_relative_paths, one child kept and one
\* joined to the parent.
C16_Witness ==
    /\ call_out # None
    /\ call_in[1].parent_url = "https://www.example.com/doc_1.html"
    /\ call_in[1].child_urls = {"https://www.example.com/doc_2.html", "doc_3.html"}
    /\ call_out[1] # call_in[1].child_urls

-----------------------------------------------------------------------------
(* Properties of the crawl session (Spec) *)

\* The decision of the robots policy for a url: the allow flag of the first rule
\* of the list that matches it, allowed when none does.
is_allowed(rules, url) ==
    LET hits == {i \in 1..Len(rules) : rule_match(rules[i], url)}
    IN  hits = {} \/ rules[CHOOSE i \in hits : \A k \in hits : i <= k].allow

\* C1: no URL is at once scheduled and crawled.
C1_ScheduledCrawledDisjoint == scheduled \cap crawled = {}

\* C2: no URL is fetched more than once in a session, the site root included.
C2_FetchedAtMostOnce == \A url \in BagToSet(fetched) : CopiesIn(url, fetched) <= 1

\* C3: a discovered URL whose first matching rule is a Disallow is never
\* scheduled, hence never crawled.
C3_OnlyAllowedScheduled ==
    \A url \in (scheduled \cup crawled) \ {website_root} : is_allowed(robots, url)

\* C12: on a site of finitely many pages whose fetches all return, crawl() once
\* started comes to its end with an empty scheduled set, whichever URL each
\* iteration pops.
C12_CrawlTerminates == (pc = "crawling") ~> (pc = "done" /\ scheduled = {})

\* C12 witness: a crawl that ended after fetching three pages, the root twice.
C12_Witness ==
    /\ pc = "done"
    /\ scheduled = {}
    /\ Cardinality(crawled) >= 3
    /\ CopiesIn(website_root, fetched) = 2

\* C13: what is not a candidate URL is dropped when a page's hrefs are taken:
\* every URL printed, marked as seen or scheduled is a candidate URL
\* (href_is_valid_url), a relative href such as b.html being kept in its
\* resolved form only.
C13_NonCandidatesDiscarded ==
    \A url \in seen \cup scheduled \cup BagToSet(emitted) :
        href_is_valid_url(Some(url)) /\ url_netloc(url) # ""

\* C17: no step of a session takes a URL out of the seen set or out of the
\* crawled set.
C17_SeenAndCrawledGrow == [][seen \subseteq seen' /\ crawled \subseteq crawled']_vars

\* C17 witness: the seen set and the crawled set have grown in several iterations.
C17_Witness ==
    /\ pc = "crawling"
    /\ Cardinality(seen) >= 3
    /\ Cardinality(crawled) >= 2
    /\ rediscovered

\* The URL an iteration popped: the one fetched once more.
Popped(before, after) == {url \in BagToSet(after) : CopiesIn(url, after) > CopiesIn(url, before)}

\* Whether url matches Aragog._website_domain_pattern.
IsLocal(url) == \E branch \in local_domain_pattern : match(branch, url)

\* C18: an iteration that goes through leaves in scheduled what was there but the
\* popped URL, and every local URL it marked as seen, whatever the rules of
\* robots.txt say about it.
C18_ScheduledWhateverTheRules ==
    [][(pc = "crawling" /\ pc' = "crawling") =>
          scheduled' = (scheduled \ Popped(fetched, fetched'))
                           \cup {url \in seen' \ seen : IsLocal(url)}]_vars

\* C18 witness: an iteration has scheduled a URL whose first matching rule is a
\* Disallow, the scan having stopped at that rule.
C18_Witness ==
    /\ pc = "crawling"
    /\ Cardinality(crawled) >= 1
    /\ \E url \in scheduled \cap seen :
          /\ ~is_allowed(robots, url)
          /\ scan_rules(robots, 1, url) = {}

\* C19: the URLs printed are those marked as seen, local or not, while every URL
\* scheduled, crawled or fetched matches the pattern of the target domain.
C19_OnlyLocalScheduled ==
    /\ BagToSet(emitted) = seen
    /\ \A url \in scheduled \cup crawled \cup BagToSet(fetched) : IsLocal(url)

\* C19 witness: a URL of another host was printed and marked as seen, and the
\* crawl went on to a second page.
C19_Witness ==
    /\ \E url \in seen : ~IsLocal(url) /\ url_netloc(url) # "" /\ CopiesIn(url, emitted) = 1
    /\ Cardinality(crawled) >= 2
    /\ scheduled # {}

\* C21: every URL scheduled or crawled is the site root or was marked as seen,
\* every URL printed was marked as seen, and crawl() starts with the root
\* scheduled and nothing marked as seen, the root not either: the root is marked
\* as seen only when a page links to it, and is printed then.
C21_SeenButTheRoot ==
    /\ (scheduled \cup crawled) \subseteq (seen \cup {website_root})
    /\ BagToSet(emitted) \subseteq seen
    /\ (pc = "crawling" /\ fetched = EmptyBag) => (scheduled = {website_root} /\ seen = {})
    /\ website_root \in seen => CopiesIn(website_root, emitted) >= 1

\* C21 witness: the root was crawled and is not marked as seen, while another
\* URL, marked as seen and printed, is scheduled.
C21_Witness ==
    /\ pc = "crawling"
    /\ website_root \in crawled \ seen
    /\ \E url \in scheduled \cap seen : url # website_root /\ CopiesIn(url, emitted) = 1

\* C22: an iteration takes one scheduled URL. When its fetch fails the URL is
\* gone from scheduled and not added to crawled, and seen is as before; when the
\* fetch succeeds the iteration takes that URL and no other out of scheduled
\* and puts that URL and no other into crawled.
C22_ExactlyThePoppedUrlMoves ==
    [][(pc = "crawling" /\ fetched' # fetched) =>
          LET popped == Popped(fetched, fetched') IN
          /\ Cardinality(popped) = 1
          /\ popped \subseteq scheduled
          /\ IF raised' # "none"
             THEN /\ scheduled' = scheduled \ popped
                  /\ crawled' = crawled
                  /\ seen' = seen
             ELSE /\ scheduled \ scheduled' = popped
                  /\ crawled \subseteq crawled'
                  /\ crawled' \ crawled = popped]_vars

\* The URLs the page of url links to on the site, and the local ones of them.
LinksOf(pages, url) == get_child_urls_from_parent(url, pages[url])

LocalLinksOf(pages, url) == remove_non_local_urls(LinksOf(pages, url), local_domain_pattern)

\* The URLs of the site that links lead to from the URLs found, in n steps at most.
RECURSIVE LinkedFrom(_, _, _)
LinkedFrom(pages, found, n) ==
    IF n = 0 THEN found
    ELSE LinkedFrom(pages, found \cup UNION {LocalLinksOf(pages, url) : url \in found}, n - 1)

\* The pages of the site that links lead to from the root.
SiteReach(pages) == LinkedFrom(pages, {website_root}, Cardinality(SiteUrls))

\* C23: on a fixed site, what a finished crawl leaves is fixed by the site alone,
\* whichever URL each iteration popped: crawled is the set of pages links lead to
\* from the root, seen is the set of URLs those pages link to, and each of these
\* URLs was printed, once.
C23_ResultFixedBySite ==
    (pc = "done" /\ site # None) =>
        LET pages == site[1]
            links == UNION {LinksOf(pages, url) : url \in SiteReach(pages)}
        IN  /\ crawled = SiteReach(pages)
            /\ seen = links
            /\ emitted = SetToBag(links)

\* C23 witness: a crawl has finished on a site where the root and b.html were
\* scheduled together, either of them popped first, and b.html led to a third page.
C23_Witness ==
    /\ pc = "done"
    /\ site # None
    /\ site[1][website_root] = {Some("b.html"), Some("/")}
    /\ "http://a.io/x.cgi" \in crawled
    /\ CopiesIn(website_root, fetched) = 2

\* C4: no URL is printed more than once in a session.
C4_EmittedAtMostOnce == \A url \in BagToSet(emitted) : CopiesIn(url, emitted) <= 1

\* C4 witness: a page linked to a URL seen (and printed) before, two pages on.
C4_Witness ==
    /\ rediscovered
    /\ Cardinality(crawled) >= 2
    /\ \E url \in seen : CopiesIn(url, emitted) = 1

\* C5: whatever exception the robots.txt fetch raises, the session is
\* constructed with an empty rule list, under which every URL is allowed.
C5_AnyRobotsFailureTolerated ==
    (response.exc # "none" /\ pc # "new") =>
        /\ pc # "init_failed"
        /\ robots = <<>>
        /\ \A url \in seen : is_allowed(robots, url)

\* C6: an exception of a page fetch leaves crawl(): the iteration it happens in
\* prints, marks and schedules nothing, and nothing happens after it.
C6_PageErrorAborts ==
    [][ /\ (raised # "none" => UNCHANGED crawl_vars)
        /\ (raised = "none" /\ raised' # "none" /\ pc = "crawling") =>
              /\ pc' = "aborted"
              /\ emitted' = emitted
              /\ seen' = seen
              /\ crawled' = crawled
              /\ scheduled' \subseteq scheduled ]_vars

\* C6 witness: a page fetch failed while other URLs were still scheduled.
C6_Witness == pc = "aborted" /\ raised # "none" /\ scheduled # {} /\ crawled # {}

-----------------------------------------------------------------------------
(* Properties of the robots.txt parser (SpecRobots) *)

IsUserAgentLine(line) == user_agent_pattern(line) # None
IsRuleLine(line) == allow_pattern(line) # None \/ disallow_pattern(line) # None

\* Line i is a rule line in the scope of a relevant agent: the last User-agent
\* line before it names a relevant agent.
InRelevantScope(lines, i) ==
    /\ IsRuleLine(lines[i])
    /\ \E j \in 1..(i - 1) :
          /\ IsUserAgentLine(lines[j])
          /\ user_agent_pattern(lines[j])[1] \in relevant_agents
          /\ \A k \in (j + 1)..(i - 1) : ~IsUserAgentLine(lines[k])

\* The lines with their numbers, and those of them in a relevant scope, in order.
RelevantLines(lines) ==
    SelectSeq([i \in 1..Len(lines) |-> [n |-> i, line |-> lines[i]]],
              LAMBDA l : InRelevantScope(lines, l.n))

Count(rules, allow) == Len(SelectSeq(rules, LAMBDA r : r.allow = allow))

\* C7: the rules collected from a document are the Allow/Disallow lines whose
\* last User-agent line before them names '*', one rule a line, in line order;
\* the example document gives 4 Disallow rules and 1 Allow rule.
C7_RulesOfRelevantGroups ==
    parsed # None =>
        LET lines == splitlines(doc)
            expected == RelevantLines(lines)
            rules == parsed[1].rules
        IN  /\ Len(rules) = Len(expected)
            /\ parsed[1].stage = "filtered" =>
                  \A i \in 1..Len(rules) : rules[i] = factory(test_root, expected[i].line)
            /\ doc = example_robots_txt =>
                  Len(rules) = 5 /\ Count(rules, FALSE) = 4 /\ Count(rules, TRUE) = 1

\* C7 witness: the example document filtered, its second group contributing nothing.
C7_Witness ==
    /\ parsed # None
    /\ parsed[1].stage = "filtered"
    /\ doc = example_robots_txt
    /\ Len(parsed[1].rules) = 5

WithPriority(rules, p) == SelectSeq(rules, LAMBDA r : r.priority = p)

\* C8: the returned list is in decreasing priority order and rules of equal
\* priority keep the order of their lines in the document.
C8_SortedDecreasingStable ==
    (parsed # None /\ parsed[1].stage = "sorted") =>
        LET rules == parsed[1].rules
            in_document_order == filter_by_agent(test_root, splitlines(doc))
        IN  /\ Len(rules) = Len(in_document_order)
            /\ \A i \in 1..(Len(rules) - 1) : rule_ge(rules[i], rules[i + 1])
            /\ \A p \in {r.priority : r \in {rules[i] : i \in 1..Len(rules)}} :
                  WithPriority(rules, p) = WithPriority(in_document_order, p)

\* C8 witness: a sorted list that had to be reordered and holds two different
\* rules of one priority.
C8_Witness ==
    /\ parsed # None
    /\ parsed[1].stage = "sorted"
    /\ parsed[1].rules # filter_by_agent(test_root, splitlines(doc))
    /\ \E i \in 1..(Len(parsed[1].rules) - 1) :
          /\ parsed[1].rules[i].priority = parsed[1].rules[i + 1].priority
          /\ parsed[1].rules[i] # parsed[1].rules[i + 1]

-----------------------------------------------------------------------------
(* Properties of rule priorities (SpecRule) *)

\* C9: a rule's priority is the length of its raw path, and lhs >= rhs is
\* Len(raw path of lhs) >= Len(raw path of rhs), whatever the allow flags.
C9_PriorityIsRawLength ==
    rule_out # None =>
        LET in == rule_in[1]
            out == rule_out[1]
        IN  /\ out.lhs.priority = Len(in.lhs.raw)
            /\ out.rhs.priority = Len(in.rhs.raw)
            /\ out.ge <=> (Len(in.lhs.raw) >= Len(in.rhs.raw))

\* C9 witness: a directory rule against a longer plain rule of the other kind.
C9_Witness ==
    /\ rule_out # None
    /\ rule_in[1].lhs.raw = "/a/"
    /\ rule_in[1].rhs.raw = "/a.b"
    /\ rule_in[1].lhs.allow # rule_in[1].rhs.allow
    /\ ~rule_out[1].ge

-----------------------------------------------------------------------------
(* Properties of rule matching (SpecMatch) *)

\* u is glob g with every '*' replaced by some run of characters: u is the text
\* of g before its first '*', then any run, then a match of the rest of g.
RECURSIVE GlobMatches(_, _)
GlobMatches(g, u) ==
    LET star == Find(g, "*", 1)
        text == IF star = 0 THEN g ELSE SubSeq(g, 1, star - 1)
    IN  IF star = 0 THEN u = g
        ELSE /\ StartsWith(u, text)
             /\ \E k \in Len(text)..Len(u) : GlobMatches(Drop(g, star), Drop(u, k))

\* the raw path with a last '/' read as '/*'
AsGlob(raw_path) == IF EndsWith(raw_path, "/") THEN raw_path \o "*" ELSE raw_path

\* the text of glob g after its last '*' (all of g when it has none)
AfterLastStar(g) == Drop(g, Max({i \in 1..Len(g) : Char(g, i) = "*"} \cup {0}))

SameSchemeAndHost(u, v) == url_scheme(u) = url_scheme(v) /\ url_netloc(u) = url_netloc(v)

====
